---- MODULE Spec2Model ----
(***************************************************************************)
(* Stock-risk evaluation of the PPIC dashboards (app.py, final.py):        *)
(* process_dashboard_data / get_status (batch path, tab 1) and the         *)
(* single-item simulation (tab 2), with the classifier model.predict as    *)
(* an injected dependency.                                                 *)
(*                                                                         *)
(* Numbers are floats in the program.  A value is modelled as a record     *)
(*   [k |-> "fin", n, d]   the exact rational n/d (d > 0, lowest terms)     *)
(*   [k |-> "inf"], [k |-> "ninf"], [k |-> "nan"]  the IEEE special values  *)
(* Binary rounding error of finite floats is not modelled.                 *)
(***************************************************************************)
EXTENDS Integers, Sequences, FiniteSets, TLC

VARIABLES app, model, session, op, input, work, result, calls, fault, message,
          prev, api

vars == <<app, model, session, op, input, work, result, calls, fault, message,
          prev, api>>

-----------------------------------------------------------------------------
(* Bounds of the model *)

\* largest number of rows of the table handed to process_dashboard_data
MaxRows == 2

\* largest number of rows of a table whose risk list is examined
MaxSortRows == 3

-----------------------------------------------------------------------------
(* Float arithmetic *)

Abs(x) == IF x < 0 THEN -x ELSE x

RECURSIVE GCD(_, _)
GCD(a, b) == IF b = 0 THEN a ELSE GCD(b, a % b)

\* the finite value n/d (d > 0), in lowest terms
Fin(n, d) ==
  LET g == GCD(Abs(n), d)
  IN  [k |-> "fin", n |-> n \div g, d |-> d \div g]

Inf  == [k |-> "inf",  n |-> 0, d |-> 1]
NInf == [k |-> "ninf", n |-> 0, d |-> 1]
NaN  == [k |-> "nan",  n |-> 0, d |-> 1]

\* Python's None, where a value may be absent
None == [k |-> "none", n |-> 0, d |-> 1]

IsNone(v) == v.k = "none"

Num(i) == Fin(i, 1)

\* a / b as pandas/numpy divide two float columns: no ZeroDivisionError,
\* x/0 is +-inf and 0/0 is nan
ColDiv(a, b) ==
  IF a.k = "nan" \/ b.k = "nan" THEN NaN
  ELSE IF a.k = "fin" /\ b.k = "fin"
       THEN IF b.n = 0
            THEN (IF a.n > 0 THEN Inf ELSE IF a.n < 0 THEN NInf ELSE NaN)
            ELSE IF b.n > 0 THEN Fin(a.n * b.d, a.d * b.n)
                 ELSE Fin(-(a.n * b.d), a.d * (-b.n))
  ELSE IF a.k = "fin" THEN Num(0)
  ELSE IF b.k # "fin" THEN NaN
  ELSE IF (a.k = "inf") = (b.n >= 0) THEN Inf ELSE NInf

\* a - b on floats
Sub(a, b) ==
  IF a.k = "nan" \/ b.k = "nan" THEN NaN
  ELSE IF a.k = "fin" /\ b.k = "fin" THEN Fin(a.n * b.d - b.n * a.d, a.d * b.d)
  ELSE IF a.k = "fin" THEN (IF b.k = "inf" THEN NInf ELSE Inf)
  ELSE IF b.k = "fin" THEN a
  ELSE IF a.k = b.k THEN NaN
  ELSE a

\* a <= 0 on floats (False for nan)
LeqZero(a) == (a.k = "ninf") \/ (a.k = "fin" /\ a.n <= 0)

\* a > 0 on floats (False for nan)
GtZero(a) == (a.k = "inf") \/ (a.k = "fin" /\ a.n > 0)

\* round(x, 1): to one decimal, ties to the even digit; inf and nan unchanged
Round1(a) ==
  IF a.k # "fin" THEN a
  ELSE LET t == 10 * a.n
           q == t \div a.d
           r == t - q * a.d
           m == IF 2 * r < a.d THEN q
                ELSE IF 2 * r > a.d THEN q + 1
                ELSE IF q % 2 = 0 THEN q ELSE q + 1
       IN  Fin(m, 10)

-----------------------------------------------------------------------------
(* Data: the loaded artifacts and the values the widgets and tables take *)

Seksi    == {"S1", "S2"}
Komponen == {"K1", "K2"}
Labels   == {"Merah", "Kuning", "Hijau"}

\* stock and lead times entered in the widgets
StokValues == {0, 200, 201}
LeadValues == {3, 4}

\* lead times of the dataset's rows
DatasetLeadValues == {4}

AllColumns == {"tanggal", "seksi_tujuan", "nama_komponen", "stok_tersedia",
               "konsumsi_per_jam", "lead_time"}

\* konsumsi_map.pkl: (seksi, komponen) -> consumption per hour; no entry
\* for (S2, K2)
KonsumsiKeys == {<<"S1", "K1">>, <<"S1", "K2">>, <<"S2", "K1">>}

KonsumsiMap ==
  [key \in KonsumsiKeys |->
     IF key = <<"S1", "K1">> THEN Num(50)
     ELSE IF key = <<"S1", "K2">> THEN Num(0)
     ELSE Num(10)]

\* variant: a rate of 0 answered for an absent key
MapGetDefault(key) == IF key \in KonsumsiKeys THEN KonsumsiMap[key] ELSE Num(0)

\* konsumsi_map.get(key): None when the key is absent
MapGet(key) == IF key \in KonsumsiKeys THEN KonsumsiMap[key] ELSE None

\* the rows a day of dummy_dataset.csv may hold: a (seksi, komponen) pair
\* of the map with its consumption rate, any stock and lead time
Rows ==
  {[tanggal |-> "D1", seksi_tujuan |-> key[1], nama_komponen |-> key[2],
    stok_tersedia |-> Num(s), konsumsi_per_jam |-> KonsumsiMap[key],
    lead_time |-> Num(l)] : key \in KonsumsiKeys, s \in StokValues,
                            l \in DatasetLeadValues}

\* data_on_date: a non-empty table
Tables == UNION {[1..n -> Rows] : n \in 1..MaxRows}

\* model_pipeline.pkl: the loaded classifiers considered.  Each is a
\* deterministic function of the four features it is given.
Models == {"const_Merah", "const_Kuning", "const_Hijau", "raises",
           "by_komponen", "by_stok"}

\* variant: a classifier that answers 'Hijau' once an evaluation has been made
PredictWarm(m, x) ==
  IF prev.kind # "none" THEN "Hijau" ELSE
  CASE m = "const_Merah"  -> "Merah"
    [] m = "const_Kuning" -> "Kuning"
    [] OTHER -> "Hijau"

\* model.predict(input_data)[0]: a label, or "raise" when the call fails
Predict(m, x) ==
  CASE m = "const_Merah"  -> "Merah"
    [] m = "const_Kuning" -> "Kuning"
    [] m = "const_Hijau"  -> "Hijau"
    [] m = "raises"       -> "raise"
    [] m = "by_komponen"  -> (IF x.nama_komponen = "K1" /\ x.seksi_tujuan = "S1"
                              THEN "raise" ELSE "Hijau")
    [] m = "by_stok"      -> (IF x.stok_tersedia.n > 200 * x.stok_tersedia.d THEN "Merah"
                              ELSE IF x.stok_tersedia.n > 0 THEN "Kuning"
                              ELSE "Hijau")

-----------------------------------------------------------------------------
(* process_dashboard_data(df, model) *)

NoStatus == "none"

\* variant: a negative stock counted as no stock
WaktuHabisStokColumnClamped(stok, konsumsi) ==
  ColDiv(IF stok.k = "fin" /\ stok.n < 0 THEN Num(0) ELSE stok, konsumsi)

\* dashboard_df['stok_tersedia'] / dashboard_df['konsumsi_per_jam']
WaktuHabisStokColumn(stok, konsumsi) == ColDiv(stok, konsumsi)

\* variant: the operands of the subtraction exchanged
SelisihWaktuSwapped(waktu_habis_stok, lead_time) == Sub(lead_time, waktu_habis_stok)

\* dashboard_df['waktu_habis_stok'] - dashboard_df['lead_time']
SelisihWaktu(waktu_habis_stok, lead_time) == Sub(waktu_habis_stok, lead_time)

\* variant: the test written as selisih_waktu < 0
IsMerahStrict(selisih_waktu) ==
  (selisih_waktu.k = "ninf") \/ (selisih_waktu.k = "fin" /\ selisih_waktu.n < 0)

\* the test of get_status and of the simulation: selisih_waktu <= 0
IsMerah(selisih_waktu) == LeqZero(selisih_waktu)

\* variant: the prediction returned as it is
RemapNone(pred) == pred

\* variant: every prediction turned into 'Kuning'
RemapAlways(pred) == "Kuning"

\* 'Kuning' if pred == 'Merah' else pred
Remap(pred) == IF pred = "Merah" THEN "Kuning" ELSE pred

\* variant: stock and lead time handed over in each other's place
InputDataSwapped(seksi, komponen, stok, lead) ==
  [seksi_tujuan |-> seksi, nama_komponen |-> komponen,
   stok_tersedia |-> lead, lead_time |-> stok]

\* the features handed to the classifier
InputData(seksi, komponen, stok, lead) ==
  [seksi_tujuan |-> seksi, nama_komponen |-> komponen,
   stok_tersedia |-> stok, lead_time |-> lead]

\* variant: the test made on waktu_habis_stok, the lead time forgotten
GetStatusOnWaktu(row, i, cols, m) ==
  IF IsMerah(row.waktu_habis_stok)
  THEN [fault |-> "none", Status |-> "Merah", calls |-> <<>>]
  ELSE LET x    == InputData(row.seksi_tujuan, row.nama_komponen,
                             row.stok_tersedia, row.lead_time)
           pred == Predict(m, x)
           call == [row |-> i, args |-> x, ret |-> pred]
       IN  IF pred = "raise"
           THEN [fault |-> "ClassifierError", Status |-> NoStatus, calls |-> <<call>>]
           ELSE [fault |-> "none", Status |-> Remap(pred), calls |-> <<call>>]

\* variant: the classifier's label returned without the downgrade
GetStatusRaw(row, i, cols, m) ==
  IF IsMerah(row.selisih_waktu)
  THEN [fault |-> "none", Status |-> "Merah", calls |-> <<>>]
  ELSE LET x    == InputData(row.seksi_tujuan, row.nama_komponen,
                             row.stok_tersedia, row.lead_time)
           pred == Predict(m, x)
           call == [row |-> i, args |-> x, ret |-> pred]
       IN  IF pred = "raise"
           THEN [fault |-> "ClassifierError", Status |-> NoStatus, calls |-> <<call>>]
           ELSE [fault |-> "none", Status |-> pred, calls |-> <<call>>]

\* get_status(row) for row number i: the status it returns, the classifier
\* calls it makes and the exception it raises
GetStatus(row, i, cols, m) ==
  IF IsMerah(row.selisih_waktu)
  THEN [fault |-> "none", Status |-> "Merah", calls |-> <<>>]
  ELSE IF ~({"seksi_tujuan", "nama_komponen"} \subseteq cols)
  THEN [fault |-> "KeyError", Status |-> NoStatus, calls |-> <<>>]
  ELSE LET x    == InputData(row.seksi_tujuan, row.nama_komponen,
                             row.stok_tersedia, row.lead_time)
           pred == Predict(m, x)
           call == [row |-> i, args |-> x, ret |-> pred]
       IN  IF pred = "raise"
           THEN [fault |-> "ClassifierError", Status |-> NoStatus, calls |-> <<call>>]
           ELSE [fault |-> "none", Status |-> Remap(pred), calls |-> <<call>>]

\* dashboard_df.apply(get_status, axis=1): rows in order, stopping at the
\* first exception
RECURSIVE Apply(_, _, _, _, _)
Apply(rows, i, cols, m, acc) ==
  IF i > Len(rows) \/ acc.fault # "none" THEN acc
  ELSE LET g == GetStatus(rows[i], i, cols, m)
       IN  Apply(rows, i + 1, cols, m,
                 [fault    |-> g.fault,
                  statuses |-> IF g.fault = "none" THEN Append(acc.statuses, g.Status)
                               ELSE acc.statuses,
                  calls    |-> acc.calls \o g.calls])

\* a row of dashboard_df with the two computed columns (NoStatus until the
\* Status column is assigned)
WorkRow(r, waktu, selisih, status) ==
  [seksi_tujuan |-> r.seksi_tujuan, nama_komponen |-> r.nama_komponen,
   stok_tersedia |-> r.stok_tersedia, konsumsi_per_jam |-> r.konsumsi_per_jam,
   lead_time |-> r.lead_time,
   waktu_habis_stok |-> waktu, selisih_waktu |-> selisih, Status |-> status]

\* result_df.round(1) of one row
ResultRow(w) ==
  [Tanggal |-> "D1", Seksi_Tujuan |-> w.seksi_tujuan,
   Nama_Komponen |-> w.nama_komponen, Status |-> w.Status,
   Stok |-> Round1(w.stok_tersedia),
   Sisa_Waktu |-> Round1(w.waktu_habis_stok),
   Lead_Time |-> Round1(w.lead_time),
   Buffer_Waktu |-> Round1(w.selisih_waktu)]

\* variant: the columns assigned on the caller's table itself (no copy)
CallerDfAliased(df, dashboard_df) == dashboard_df

\* dashboard_df = df.copy(): the columns are assigned on a copy, so the table
\* the caller handed over is, after the call, what it was before
CallerDf(df, dashboard_df) == df

\* the whole function: what it computed (computed: the arithmetic columns
\* assigned; statuses: the values get_status returned, in row order), the
\* classifier calls, and either the returned table or the exception that
\* left it
ProcessDashboardData(df, cols, m) ==
  LET none == [fault |-> "none", computed |-> {}, work |-> <<>>, statuses |-> <<>>,
               calls |-> <<>>, returned |-> FALSE, table |-> <<>>,
               df_after |-> df]
  IN
  IF ~({"stok_tersedia", "konsumsi_per_jam"} \subseteq cols)
  THEN [none EXCEPT !.fault = "KeyError"]
  ELSE IF "lead_time" \notin cols
  THEN [none EXCEPT !.fault = "KeyError", !.computed = {"waktu_habis_stok"}]
  ELSE
    LET waktu(i)   == WaktuHabisStokColumn(df[i].stok_tersedia, df[i].konsumsi_per_jam)
        selisih(i) == SelisihWaktu(waktu(i), df[i].lead_time)
        rows == [i \in 1..Len(df) |-> WorkRow(df[i], waktu(i), selisih(i), NoStatus)]
        a    == Apply(rows, 1, cols, m,
                      [fault |-> "none", statuses |-> <<>>, calls |-> <<>>])
        both == {"waktu_habis_stok", "selisih_waktu"}
    IN  IF a.fault # "none"
        THEN [none EXCEPT !.fault = a.fault, !.computed = both, !.work = rows,
                          !.statuses = a.statuses, !.calls = a.calls,
                          !.df_after = CallerDf(df, rows)]
        ELSE LET done == [i \in 1..Len(df) |->
                            [rows[i] EXCEPT !.Status = a.statuses[i]]]
             IN  IF ~({"tanggal", "seksi_tujuan", "nama_komponen"} \subseteq cols)
                 THEN [none EXCEPT !.fault = "KeyError", !.computed = both,
                                   !.work = done, !.statuses = a.statuses,
                                   !.calls = a.calls,
                                   !.df_after = CallerDf(df, done)]
                 ELSE [none EXCEPT !.computed = both, !.work = done,
                                   !.statuses = a.statuses,
                                   !.calls = a.calls, !.returned = TRUE,
                                   !.table = [i \in 1..Len(df) |-> ResultRow(done[i])],
                                   !.df_after = CallerDf(df, done)]

-----------------------------------------------------------------------------
(* The single-item simulation (app.py tab 2) and risk analysis (final.py) *)

\* what a division of Python numbers by zero leaves instead of a value
ZeroDivisionError == [k |-> "ZeroDivisionError", n |-> 0, d |-> 1]

\* variant: the division made without the test of the rate
WaktuHabisStokSimUnguarded(stok, konsumsi) ==
  IF konsumsi.k = "fin" /\ konsumsi.n = 0
  THEN ZeroDivisionError
  ELSE ColDiv(stok, konsumsi)

\* input_stok / konsumsi_per_jam if konsumsi_per_jam > 0 else float('inf')
WaktuHabisStokSim(stok, konsumsi) ==
  IF GtZero(konsumsi) THEN ColDiv(stok, konsumsi) ELSE Inf

\* variant: a failing classifier caught and answered with 'Merah'
FinalPrediksiSwallow(selisih, x, m) ==
  IF IsMerah(selisih)
  THEN [fault |-> "none", Status |-> "Merah", calls |-> <<>>]
  ELSE LET pred == Predict(m, x)
           call == [row |-> 1, args |-> x, ret |-> pred]
       IN  [fault |-> "none",
            Status |-> IF pred \in {"Merah", "raise"} THEN "Merah" ELSE pred,
            calls |-> <<call>>]

\* variant: the simulation without the downgrade of a predicted 'Merah'
FinalPrediksiNoRemap(selisih, x, m) ==
  IF IsMerah(selisih)
  THEN [fault |-> "none", Status |-> "Merah", calls |-> <<>>]
  ELSE LET pred == Predict(m, x)
           call == [row |-> 1, args |-> x, ret |-> pred]
       IN  IF pred = "raise"
           THEN [fault |-> "ClassifierError", Status |-> NoStatus, calls |-> <<call>>]
           ELSE [fault |-> "none", Status |-> pred, calls |-> <<call>>]

\* the if/else deciding final_prediksi: the status, the classifier calls
\* and the exception raised
FinalPrediksi(selisih, x, m) ==
  IF IsMerah(selisih)
  THEN [fault |-> "none", Status |-> "Merah", calls |-> <<>>]
  ELSE LET pred == Predict(m, x)
           call == [row |-> 1, args |-> x, ret |-> pred]
       IN  IF pred = "raise"
           THEN [fault |-> "ClassifierError", Status |-> NoStatus, calls |-> <<call>>]
           ELSE [fault |-> "none",
                 Status |-> IF pred = "Merah" THEN "Kuning" ELSE pred,
                 calls |-> <<call>>]

\* the body run once the consumption rate is known
Simulate(seksi, komponen, stok, konsumsi, lead, m) ==
  LET waktu   == WaktuHabisStokSim(stok, konsumsi)
      selisih == SelisihWaktu(waktu, lead)
      f       == FinalPrediksi(selisih, InputData(seksi, komponen, stok, lead), m)
      r       == [seksi_tujuan |-> seksi, nama_komponen |-> komponen,
                  stok_tersedia |-> stok, konsumsi_per_jam |-> konsumsi,
                  lead_time |-> lead]
  IN  [fault |-> f.fault, calls |-> f.calls,
       work |-> <<WorkRow(r, waktu, selisih, f.Status)>>,
       statuses |-> IF f.fault = "none" THEN <<f.Status>> ELSE <<>>]

-----------------------------------------------------------------------------
(* get_coords_from_nominatim and get_eta_from_ors (final.py) *)

Locations == {"Bogor", "Cikarang"}
ApiKeys   == {"", "key"}

\* what the geocoding request may answer
GeoResponses == {"found", "empty", "status", "exception"}

\* what the route request may answer: a duration in hours (as n/d), or a
\* failure
EtaHours       == {Fin(3, 2), Num(2)}
RouteResponses == {[kind |-> "ok", hours |-> h] : h \in EtaHours}
                  \cup {[kind |-> "status"], [kind |-> "exception"]}

\* (coords, message)
GetCoordsFromNominatim(location_text, resp) ==
  IF resp = "found" THEN [coords |-> [k |-> "coords", of |-> location_text], msg |-> "ok"]
  ELSE [coords |-> None, msg |-> resp]

\* (duration_hours, route_coords) or (None, message)
GetEtaFromOrs(api_key, start_coords, resp) ==
  IF api_key = "" THEN [hours |-> None, route |-> None, msg |-> "no key"]
  ELSE IF IsNone(start_coords) THEN [hours |-> None, route |-> None, msg |-> "no coords"]
  ELSE IF resp.kind = "ok"
       THEN [hours |-> resp.hours, route |-> [k |-> "route", from |-> start_coords.of],
             msg |-> "ok"]
  ELSE [hours |-> None, route |-> None, msg |-> resp.kind]

\* eta_hours * (1 + traffic_factor / 100) with traffic_factor = 100
AdjustedEta(eta_hours) == Fin(eta_hours.n * 2, eta_hours.d)

-----------------------------------------------------------------------------
(* The risk list of tab 1: status filter, then sort_values *)

\* filtered_dashboard['Status'].map({'Merah': 0, 'Kuning': 1, 'Hijau': 2})
SortKey(status) ==
  CASE status = "Merah"  -> 0
    [] status = "Kuning" -> 1
    [] status = "Hijau"  -> 2

\* ascending order of a float column as sort_values orders it: -inf, the
\* finite values, +inf, and nan last (na_position='last')
FloatBefore(a, b) ==
  IF a.k = "nan" THEN FALSE
  ELSE IF b.k = "nan" THEN TRUE
  ELSE IF a.k = "ninf" THEN b.k # "ninf"
  ELSE IF b.k = "ninf" THEN FALSE
  ELSE IF a.k = "inf" THEN FALSE
  ELSE IF b.k = "inf" THEN TRUE
  ELSE a.n * b.d < b.n * a.d

\* variant: the list sorted on the status alone
RowBeforeByStatus(t, i, j) == SortKey(t[i].Status) < SortKey(t[j].Status)

\* row i of table t sorts strictly before row j: by=['SortKey',
\* 'Buffer Waktu (Jam)'], the buffer being the column of the returned
\* (rounded) table
RowBefore(t, i, j) ==
  \/ SortKey(t[i].Status) < SortKey(t[j].Status)
  \/ /\ SortKey(t[i].Status) = SortKey(t[j].Status)
     /\ FloatBefore(t[i].Buffer_Waktu, t[j].Buffer_Waktu)

\* index i put into the sorted index list, after every entry it does not sort
\* strictly before (a sort on several columns is stable)
RECURSIVE InsertSorted(_, _, _)
InsertSorted(t, sorted, i) ==
  IF sorted = <<>> THEN <<i>>
  ELSE IF RowBefore(t, i, Head(sorted)) THEN <<i>> \o sorted
  ELSE <<Head(sorted)>> \o InsertSorted(t, Tail(sorted), i)

\* sort_values over the index labels idx (in table order) of table t
RECURSIVE SortValues(_, _, _)
SortValues(t, idx, acc) ==
  IF idx = <<>> THEN acc
  ELSE SortValues(t, Tail(idx), InsertSorted(t, acc, Head(idx)))

\* dashboard_data[dashboard_data['Status'].isin(selected_statuses)]: the index
\* labels kept, in table order
RECURSIVE FilterStatuses(_, _, _)
FilterStatuses(t, selected, i) ==
  IF i > Len(t) THEN <<>>
  ELSE (IF t[i].Status \in selected THEN <<i>> ELSE <<>>)
       \o FilterStatuses(t, selected, i + 1)

\* the rows shown in the risk list, as index labels of the returned table in
\* display order (empty when the filter leaves nothing: st.info instead)
SortedDf(t, selected) == SortValues(t, FilterStatuses(t, selected, 1), <<>>)

-----------------------------------------------------------------------------
(* The pages: one action per button or tab, and the rerun between them *)

NoInput == [kind |-> "none"]

\* lookups: the keys konsumsi_map.get was called with; df_after: the table
\* handed to process_dashboard_data as it is after the call; shown: the risk
\* list displayed
NoResult ==
  [returned |-> FALSE, table |-> <<>>, computed |-> {}, statuses |-> <<>>,
   lookups |-> <<>>, df_after |-> <<>>, shown |-> <<>>]

NoSession ==
  [adjusted_lead_time |-> None, route_coords |-> None, start_location_name |-> ""]

\* no earlier page remembered
NoPrev == [kind |-> "none"]

\* the monitoring service is not part of the Streamlit scripts
NoApi == [kind |-> "none"]

Init ==
  /\ app \in {"app.py", "final.py"}
  /\ model \in Models
  /\ session = NoSession
  /\ op = "none"
  /\ input = NoInput
  /\ work = <<>>
  /\ result = NoResult
  /\ calls = <<>>
  /\ fault = "none"
  /\ message = "none"
  /\ prev = NoPrev
  /\ api = NoApi

\* tab 1: process_dashboard_data(data_on_date, model) on a table with the
\* given columns, then the status filter and the sort of the risk list
RunDashboard(df, cols, selected) ==
  LET p == ProcessDashboardData(df, cols, model)
  IN  /\ op' = "tab1"
      /\ input' = [kind |-> "table", df |-> df, columns |-> cols,
                   selected_statuses |-> selected]
      /\ work' = p.work
      /\ result' = [returned |-> p.returned, table |-> p.table,
                    computed |-> p.computed, statuses |-> p.statuses,
                    lookups |-> <<>>, df_after |-> p.df_after,
                    shown |-> IF p.returned THEN SortedDf(p.table, selected)
                              ELSE <<>>]
      /\ calls' = p.calls
      /\ fault' = p.fault
      /\ message' = "none"
      /\ UNCHANGED <<app, model, session, prev, api>>

\* tab 1 of either script, the dataset having all its columns and the status
\* filter left at its default (every status)
Tab1Dashboard ==
  /\ op = "none"
  /\ \E df \in Tables : RunDashboard(df, AllColumns, Labels)

\* the table without column c (its cells hold no value)
DropColumn(df, c) ==
  [i \in 1..Len(df) |->
     [df[i] EXCEPT ![c] = IF c \in {"stok_tersedia", "konsumsi_per_jam", "lead_time"}
                          THEN None ELSE "absent"]]

\* tab 1 on a dataset that lacks one column
Tab1MissingColumn ==
  /\ op = "none"
  /\ \E df \in Tables, c \in AllColumns :
       RunDashboard(DropColumn(df, c), AllColumns \ {c}, Labels)

\* the page left by a simulation that reported an error instead of a status
ErrorPage(text, keys) ==
  /\ message' = text
  /\ result' = [NoResult EXCEPT !.lookups = keys]
  /\ work' = <<>>
  /\ calls' = <<>>
  /\ fault' = "none"

\* the page left by a simulation that ran its arithmetic
StatusPage(s, keys) ==
  /\ message' = "none"
  /\ result' = [NoResult EXCEPT
                  !.computed = {"waktu_habis_stok", "selisih_waktu"},
                  !.statuses = s.statuses,
                  !.lookups = keys]
  /\ work' = s.work
  /\ calls' = s.calls
  /\ fault' = s.fault

\* the body of app.py's button "Jalankan Analisis", konsumsi being what
\* konsumsi_map.get((selected_seksi, selected_komponen)) answered
RunSimulasi(seksi, komponen, stok, lead, konsumsi) ==
  /\ op' = "simulasi"
  /\ input' = [kind |-> "obs", seksi_tujuan |-> seksi,
               nama_komponen |-> komponen, stok_tersedia |-> stok,
               lead_time |-> lead]
  /\ IF IsNone(konsumsi)
     THEN ErrorPage("tidak ditemukan", << <<seksi, komponen>> >>)
     ELSE StatusPage(Simulate(seksi, komponen, stok, konsumsi, lead, model),
                     << <<seksi, komponen>> >>)
  /\ UNCHANGED <<app, model, session, prev, api>>

\* app.py, button "Jalankan Analisis"
Tab2Simulasi ==
  /\ app = "app.py"
  /\ op = "none"
  /\ \E seksi \in Seksi, komponen \in Komponen,
        stok \in StokValues, lead \in LeadValues :
       RunSimulasi(seksi, komponen, Num(stok), Num(lead),
                   MapGet(<<seksi, komponen>>))

\* variant: the location name stored although the route request failed
SessionAfterEtaPartial(sess, text, g, e) ==
  IF ~IsNone(g.coords)
  THEN IF ~IsNone(e.hours)
       THEN [adjusted_lead_time |-> AdjustedEta(e.hours),
             route_coords |-> e.route,
             start_location_name |-> text]
       ELSE [sess EXCEPT !.start_location_name = text]
  ELSE sess

\* st.session_state after the ETA button: the three values are assigned
\* together, and only if start_coords and eta_hours are both there
SessionAfterEta(sess, text, g, e) ==
  IF ~IsNone(g.coords) /\ ~IsNone(e.hours)
  THEN [adjusted_lead_time |-> AdjustedEta(e.hours),
        route_coords |-> e.route,
        start_location_name |-> text]
  ELSE sess

\* final.py, button "Hitung Estimasi Lead Time (ETA)"
HitungETA ==
  /\ app = "final.py"
  /\ op = "none"
  /\ \E text \in Locations, key \in ApiKeys,
        geo \in GeoResponses, route \in RouteResponses :
       LET g == GetCoordsFromNominatim(text, geo)
           e == GetEtaFromOrs(key, g.coords, route)
       IN  /\ op' = "eta"
           /\ input' = [kind |-> "eta", start_location_text |-> text,
                        api_key |-> key, geo |-> geo, route |-> route]
           /\ session' = SessionAfterEta(session, text, g, e)
           /\ message' = IF IsNone(g.coords) THEN g.msg
                         ELSE IF IsNone(e.hours) THEN e.msg
                         ELSE "none"
  /\ work' = <<>>
  /\ result' = NoResult
  /\ calls' = <<>>
  /\ fault' = "none"
  /\ UNCHANGED <<app, model, prev, api>>

\* variant: a default lead time of 2 hours used when no ETA was computed
RisikoLeadTimeDefault(sess) ==
  IF IsNone(sess.adjusted_lead_time) THEN Num(2) ELSE sess.adjusted_lead_time

\* the lead time the risk analysis works with: st.session_state's
\* adjusted_lead_time, None until an ETA was computed
RisikoLeadTime(sess) == sess.adjusted_lead_time

\* the body of final.py's button "Jalankan Analisis Risiko"; the consumption
\* map is read only once the lead time is known to be there
RunRisiko(seksi, komponen, stok) ==
  LET lead == RisikoLeadTime(session)
  IN  /\ op' = "risiko"
      /\ input' = [kind |-> "obs", seksi_tujuan |-> seksi,
                   nama_komponen |-> komponen, stok_tersedia |-> stok,
                   lead_time |-> lead]
      /\ IF IsNone(lead)
         THEN ErrorPage("hitung ETA dahulu", <<>>)
         ELSE IF IsNone(MapGet(<<seksi, komponen>>))
         THEN ErrorPage("tidak ada data konsumsi", << <<seksi, komponen>> >>)
         ELSE StatusPage(Simulate(seksi, komponen, stok,
                                  MapGet(<<seksi, komponen>>), lead, model),
                         << <<seksi, komponen>> >>)
      /\ UNCHANGED <<app, model, session, prev, api>>

\* final.py, button "Jalankan Analisis Risiko"
AnalisisRisiko ==
  /\ app = "final.py"
  /\ op = "none"
  /\ \E seksi \in Seksi, komponen \in Komponen, stok \in StokValues :
       RunRisiko(seksi, komponen, Num(stok))

\* the page is rebuilt from the top: nothing of the page before survives
ClearPage ==
  /\ op' = "none"
  /\ input' = NoInput
  /\ work' = <<>>
  /\ result' = NoResult
  /\ calls' = <<>>
  /\ fault' = "none"
  /\ message' = "none"

\* the next interaction reruns the script: the page is rebuilt from the top,
\* only the cached artifacts and the session state survive
Rerun ==
  /\ op # "none"
  /\ ClearPage
  /\ UNCHANGED <<app, model, session, prev, api>>

Next == Tab1Dashboard \/ Tab2Simulasi \/ HitungETA \/ AnalisisRisiko \/ Rerun

Spec == Init /\ [][Next]_vars

\* app.py alone, on datasets that lack a column
InitApp == Init /\ app = "app.py"

NextMissing == Tab1MissingColumn \/ Rerun

SpecMissing == InitApp /\ [][NextMissing]_vars

\* The same pages with one earlier evaluation kept for comparison.  prev is
\* not state of the program: it records what an earlier page showed.
Tab1SingleRow ==
  /\ op = "none"
  /\ \E r \in Rows : RunDashboard(<<r>>, AllColumns, Labels)

\* a rerun at which the page just evaluated is recorded
RerunRemember ==
  /\ op \in {"tab1", "simulasi", "risiko"}
  /\ prev' = [kind |-> op, input |-> input, work |-> work, result |-> result,
              calls |-> calls, fault |-> fault, message |-> message]
  /\ ClearPage
  /\ UNCHANGED <<app, model, session, api>>

NextRepeat ==
  \/ Tab1SingleRow \/ Tab2Simulasi \/ HitungETA \/ AnalisisRisiko
  \/ Rerun \/ RerunRemember

SpecRepeat == Init /\ [][NextRepeat]_vars

\* The risk list of tab 1 on days whose rows have buffers close to each
\* other, with the status filter set by the user.
SortStokValues == {0, 100, 201, 202}

SortRows ==
  {[tanggal |-> "D1", seksi_tujuan |-> "S1", nama_komponen |-> "K1",
    stok_tersedia |-> Num(st), konsumsi_per_jam |-> KonsumsiMap[<<"S1", "K1">>],
    lead_time |-> Num(4)] : st \in SortStokValues}
  \cup
  {[tanggal |-> "D1", seksi_tujuan |-> "S1", nama_komponen |-> "K2",
    stok_tersedia |-> Num(st), konsumsi_per_jam |-> KonsumsiMap[<<"S1", "K2">>],
    lead_time |-> Num(4)] : st \in {0, 201}}

SortTables == UNION {[1..n -> SortRows] : n \in 1..MaxSortRows}

\* what the status multiselect may hold
StatusSelections == {Labels, {"Kuning", "Hijau"}}

Tab1Daftar ==
  /\ op = "none"
  /\ \E df \in SortTables, selected \in StatusSelections :
       RunDashboard(df, AllColumns, selected)

NextSort == Tab1Daftar \/ Rerun

SpecSort == Init /\ [][NextSort]_vars

\* app.py on values inside and outside the expected range: a dataset whose
\* rows may hold negative stock, rate or lead time, and a consumption map
\* whose rate for the selected pair may be negative.  The widgets of the
\* simulation take no negative stock or lead time (min_value=0).
RangeStokValues == {-40, 0, 40}
RangeRateValues == {-10, 0, 10}
RangeLeadValues == {-2, 0, 2}

RangeRows ==
  {[tanggal |-> "D1", seksi_tujuan |-> "S1", nama_komponen |-> "K1",
    stok_tersedia |-> Num(st), konsumsi_per_jam |-> Num(r),
    lead_time |-> Num(l)] :
     st \in RangeStokValues, r \in RangeRateValues, l \in RangeLeadValues}

Tab1Range ==
  /\ op = "none"
  /\ \E r \in RangeRows : RunDashboard(<<r>>, AllColumns, Labels)

Tab2Range ==
  /\ app = "app.py"
  /\ op = "none"
  /\ \E st \in {v \in RangeStokValues : v >= 0},
        l \in {v \in RangeLeadValues : v >= 0},
        r \in RangeRateValues :
       RunSimulasi("S1", "K1", Num(st), Num(l), Num(r))

NextRange == Tab1Range \/ Tab2Range \/ Rerun

SpecRange == InitApp /\ [][NextRange]_vars

-----------------------------------------------------------------------------
(* The monitoring service: backend_app.py (Flask), its client               *)
(* frontend_app.py, and the standalone dashboard bb.py.                     *)
(* A worksheet is what get_all_values() returns: a sequence of rows of      *)
(* strings, the first being the header.  A table (DataFrame) is a record    *)
(* [columns, data]: the column names and the rows, each row a sequence of   *)
(* cells aligned with the columns.  A cell is [k |-> "str", s |-> text] or  *)
(* nan.                                                                      *)

\* largest number of data rows of the monitoring worksheet
MaxSheetRows == 2

Str(text) == [k |-> "str", s |-> text]

\* str(col).upper().strip() on the header cells considered
UpperStrip(col) ==
  CASE col = "wip"   -> "WIP"
    [] col = " plan" -> "PLAN"
    [] OTHER         -> col

\* df.replace('', np.nan): an empty cell becomes nan
CleanCell(text) == IF text = "" THEN NaN ELSE Str(text)

\* pd.to_numeric(cell, errors='coerce') on the cell texts considered
ToNumeric(cell) ==
  IF cell.k # "str" THEN NaN
  ELSE CASE cell.s = "0"  -> Num(0)
         [] cell.s = "11" -> Num(11)
         [] cell.s = "22" -> Num(22)
         [] cell.s = "44" -> Num(44)
         [] OTHER         -> NaN

EmptyDf == [columns |-> <<>>, data |-> <<>>]

\* variant: a table empty only when it has no row
DfEmptyNoRows(df) == Len(df.data) = 0

\* df.empty: no row or no column
DfEmpty(df) == Len(df.columns) = 0 \/ Len(df.data) = 0

\* the positions of the header cells that are not '', in order
RECURSIVE NamedColumns(_, _)
NamedColumns(header, j) ==
  IF j > Len(header) THEN <<>>
  ELSE (IF header[j] # "" THEN <<j>> ELSE <<>>) \o NamedColumns(header, j + 1)

\* get_clean_dataframe(worksheet): worksheet is None when the connection
\* failed, all_values is what the sheet holds when it is read
GetCleanDataframe(worksheet, all_values) ==
  IF IsNone(worksheet) THEN EmptyDf
  ELSE IF Len(all_values) < 2 THEN EmptyDf
  ELSE LET header == all_values[1]
           idx    == NamedColumns(header, 1)
       IN  [columns |-> [p \in 1..Len(idx) |-> UpperStrip(header[idx[p]])],
            data    |-> [i \in 1..(Len(all_values) - 1) |->
                           [p \in 1..Len(idx) |-> CleanCell(all_values[i + 1][idx[p]])]]]

HasColumn(df, c) == \E j \in 1..Len(df.columns) : df.columns[j] = c

\* df[c] at row i
CellOf(df, i, c) ==
  df.data[i][CHOOSE j \in 1..Len(df.columns) : df.columns[j] = c]

RequiredSheetColumns == {"STOCK WH1", "WIP", "PLAN"}

\* the three columns of row i made numeric
PredictRow(df, i) ==
  [index       |-> i,
   Stock_Level |-> ToNumeric(CellOf(df, i, "STOCK WH1")),
   WIP         |-> ToNumeric(CellOf(df, i, "WIP")),
   Deviation   |-> ToNumeric(CellOf(df, i, "PLAN"))]

\* dropna keeps a row when none of its three values is nan
HasNoNa(r) ==
  r.Stock_Level.k # "nan" /\ r.WIP.k # "nan" /\ r.Deviation.k # "nan"

\* df_predict after to_numeric and dropna: the valid rows, each under the
\* index label it has in df_raw
RECURSIVE DropNa(_, _)
DropNa(df, i) ==
  IF i > Len(df.data) THEN <<>>
  ELSE (IF HasNoNa(PredictRow(df, i)) THEN <<PredictRow(df, i)>> ELSE <<>>)
       \o DropNa(df, i + 1)

\* process_monitoring_data(df) of the backend: the ValueError, or df_predict
ProcessMonitoringData(df) ==
  IF ~(\A c \in RequiredSheetColumns : HasColumn(df, c))
  THEN [fault |-> "ValueError", rows |-> <<>>]
  ELSE [fault |-> "none", rows |-> DropNa(df, 1)]

\* criticality_model.pkl: model_crit.predict on one row of df_processed
CritPredict(x) ==
  IF x.Stock_Level.n + x.WIP.n < x.Deviation.n THEN "High"
  ELSE IF x.Stock_Level.n < x.Deviation.n THEN "Medium"
  ELSE "Low"

\* anomaly_model.pkl: model_anom.predict on ['Stock Level', 'WIP'] of one row
AnomPredict(x) ==
  IF x.Stock_Level.n = 0 /\ x.WIP.n > 0 THEN -1 ELSE 1

\* 'Anomali' if x == -1 else 'Normal'
AnomalyLabel(x) == IF x = -1 THEN "Anomali" ELSE "Normal"

\* variant: the values assigned to the first rows of df_raw, in order
LocAssignByPosition(n, rows, values) ==
  [i \in 1..n |-> IF i <= Len(values) THEN values[i] ELSE NaN]

\* df_raw.loc[df_processed.index, column] = values: the row of df_raw with
\* index label rows[p].index receives values[p]; the other rows hold nan
LocAssign(n, rows, values) ==
  [i \in 1..n |->
     IF \E p \in 1..Len(rows) : rows[p].index = i
     THEN values[CHOOSE p \in 1..Len(rows) : rows[p].index = i]
     ELSE NaN]

\* daily_consumption = df_raw['PLAN_NUMERIC'] / 22 (backend_app.py)
DailyConsumption(plan) == ColDiv(plan, Num(22))

\* variant: the month counted as 30 days in bb.py
BbDailyConsumption30(plan) == ColDiv(plan, Num(30))

\* daily_consumption = df_raw['PLAN_NUMERIC'] / 22 (bb.py)
BbDailyConsumption(plan) == ColDiv(plan, Num(22))

\* df_raw with the predictions, the numeric columns and Days_of_Stock; daily
\* is the daily consumption of each row
MonitoringRecords(df, rows, daily) ==
  LET n    == Len(df.data)
      crit == LocAssign(n, rows, [p \in 1..Len(rows) |-> Str(CritPredict(rows[p]))])
      anom == LocAssign(n, rows,
                [p \in 1..Len(rows) |->
                   Str(AnomalyLabel(AnomPredict([Stock_Level |-> rows[p].Stock_Level,
                                                 WIP |-> rows[p].WIP])))])
  IN  [i \in 1..n |->
         LET plan  == ToNumeric(CellOf(df, i, "PLAN"))
             stock == ToNumeric(CellOf(df, i, "STOCK WH1"))
         IN  [cells             |-> df.data[i],
              Prediksi_Kritis   |-> crit[i],
              Status_Stok       |-> anom[i],
              PLAN_NUMERIC      |-> plan,
              STOCK_WH1_NUMERIC |-> stock,
              Days_of_Stock     |-> Round1(ColDiv(stock, daily[i]))]]

\* the server's globals after start-up: load_models returns the three
\* artifacts or three None, connect_gspread the worksheets or None, and
\* initialize_gemini the Gemini model or None
Globals(models_loaded, sheets_connected, gemini_configured) ==
  [model_crit   |-> IF models_loaded THEN Str("criticality_model") ELSE None,
   model_anom   |-> IF models_loaded THEN Str("anomaly_model") ELSE None,
   scaler       |-> IF models_loaded THEN Str("scaler") ELSE None,
   ws_monitoring |-> IF sheets_connected THEN Str("template_monitoring") ELSE None,
   ws_rekap     |-> IF sheets_connected THEN Str("REKAP") ELSE None,
   gemini_model |-> IF gemini_configured THEN Str("gemini") ELSE None]

\* a response of the backend: status code and JSON body
Response(status, body) == [status |-> status, body |-> body]

\* GET /api/monitoring_data: the response and the models invoked
GetMonitoringData(g, all_values) ==
  IF IsNone(g.model_crit) \/ IsNone(g.model_anom) \/ IsNone(g.scaler)
     \/ IsNone(g.ws_monitoring)
  THEN [resp |-> Response(503, [error |-> "Sistem belum siap"]), predicts |-> <<>>]
  ELSE LET df_raw == GetCleanDataframe(g.ws_monitoring, all_values)
       IN  IF DfEmpty(df_raw)
           THEN [resp |-> Response(404, [error |-> "Tidak ada data di sheet"]),
                 predicts |-> <<>>]
           ELSE LET pr == ProcessMonitoringData(df_raw)
                IN  IF pr.fault = "ValueError"
                    THEN [resp |-> Response(400, [error |-> "Kolom tidak ditemukan"]),
                          predicts |-> <<>>]
                    ELSE IF pr.rows = <<>>
                    THEN [resp |-> Response(404, [error |-> "Data valid tidak ditemukan"]),
                          predicts |-> <<>>]
                    ELSE [resp |-> Response(200,
                            [records |-> MonitoringRecords(df_raw, pr.rows,
                               [i \in 1..Len(df_raw.data) |->
                                  DailyConsumption(ToNumeric(CellOf(df_raw, i, "PLAN")))])]),
                          predicts |-> <<"model_crit", "model_anom">>]

\* bb.py, load_monitoring_data(ws_monitoring, model_crit, model_anom): the
\* table and the error message (None without error)
BbLoadMonitoringData(g, all_values) ==
  IF IsNone(g.model_crit) \/ IsNone(g.model_anom) \/ IsNone(g.ws_monitoring)
  THEN [df |-> <<>>, error |-> Str("Sistem belum siap"), predicts |-> <<>>]
  ELSE LET df_raw == GetCleanDataframe(g.ws_monitoring, all_values)
       IN  IF DfEmpty(df_raw)
           THEN [df |-> <<>>, error |-> Str("Tidak ada data di sheet"), predicts |-> <<>>]
           ELSE IF ~(\A c \in RequiredSheetColumns : HasColumn(df_raw, c))
           THEN [df |-> <<>>, error |-> Str("Kolom hilang"), predicts |-> <<>>]
           ELSE LET rows == DropNa(df_raw, 1)
                IN  IF rows = <<>>
                    THEN [df |-> [i \in 1..Len(df_raw.data) |-> [cells |-> df_raw.data[i]]],
                          error |-> Str("Data valid tidak ditemukan"),
                          predicts |-> <<>>]
                    ELSE [df |-> MonitoringRecords(df_raw, rows,
                                   [i \in 1..Len(df_raw.data) |->
                                      BbDailyConsumption(ToNumeric(CellOf(df_raw, i, "PLAN")))]),
                          error |-> None,
                          predicts |-> <<"model_crit", "model_anom">>]

RequiredRekapColumns ==
  {"PART NUMBER", "PART NAME", "TYPE", "ORDER + TOLERANSI - KEDATANGAN"}

\* pd.to_numeric(...).fillna(0) of the Stock_Health column
StockHealth(cell) ==
  IF cell.k # "str" THEN Num(0)
  ELSE CASE cell.s = "-5" -> Num(-5)
         [] cell.s = "7"  -> Num(7)
         [] OTHER         -> Num(0)

\* GET /api/morning_meeting_dashboard; of the body of a successful answer
\* the kpi_summary is modelled
GetMorningMeetingDashboard(g, all_values) ==
  IF IsNone(g.ws_rekap)
  THEN Response(503, [error |-> "Koneksi ke sheet REKAP gagal"])
  ELSE LET df == GetCleanDataframe(g.ws_rekap, all_values)
       IN  IF DfEmpty(df)
           THEN Response(404, [error |-> "Tidak ada data di sheet REKAP"])
           ELSE IF ~(\A c \in RequiredRekapColumns : HasColumn(df, c))
           THEN Response(400, [error |-> "Kolom esensial tidak ditemukan"])
           ELSE LET health(i) ==
                      StockHealth(CellOf(df, i, "ORDER + TOLERANSI - KEDATANGAN"))
                    rows == 1..Len(df.data)
                IN  Response(200,
                      [kpi_summary |->
                         [total_parts_rekap   |-> Len(df.data),
                          parts_deficit_count |->
                            Cardinality({i \in rows : health(i).n < 0}),
                          parts_surplus_count |->
                            Cardinality({i \in rows : health(i).n > 0})]])

\* 'not x' of a JSON value: None and the empty dict are falsy
Falsy(json) == json.kind \in {"null", "empty"}

\* try: gemini_model.generate_content(prompt) ... except: both branches
\* return jsonify({"insight_text": ...}) with the default status 200
GeminiAnswer(outcome) ==
  IF outcome = "raises"
  THEN Response(200, [insight_text |-> "Gagal menghubungi API Gemini"])
  ELSE Response(200, [insight_text |-> "insight"])

\* the three exits shared by the insight endpoints: read_body tells whether
\* request.json was read, gemini_calls counts generate_content calls
InsightUnavailable ==
  [resp |-> Response(503, [insight_text |-> "Error: Konfigurasi API Gemini gagal"]),
   read_body |-> FALSE, gemini_calls |-> 0]

InsightBadRequest(text) ==
  [resp |-> Response(400, [error |-> text]), read_body |-> TRUE, gemini_calls |-> 0]

InsightGenerated(outcome) ==
  [resp |-> GeminiAnswer(outcome), read_body |-> TRUE, gemini_calls |-> 1]

\* an exception no handler of the endpoint catches: Flask answers 500 with
\* an HTML page
InternalServerError ==
  [resp |-> Response(500, [html |-> "Internal Server Error"]),
   read_body |-> TRUE, gemini_calls |-> 0]

\* POST /api/generate_monitoring_insight; part_data is request.json
GenerateMonitoringInsight(g, part_data, outcome) ==
  IF IsNone(g.gemini_model) THEN InsightUnavailable
  ELSE IF Falsy(part_data) THEN InsightBadRequest("Data part tidak disertakan")
  ELSE InsightGenerated(outcome)

\* request_data.get('rekap_analysis') on a dict
RekapAnalysisOf(request_data) ==
  IF request_data.kind = "dict" /\ "rekap_analysis" \in DOMAIN request_data.of
  THEN request_data.of.rekap_analysis
  ELSE [kind |-> "null"]

\* POST /api/generate_holistic_insight; request_data is request.json
\* (None for the body 'null', on which .get raises AttributeError)
GenerateHolisticInsight(g, request_data, outcome) ==
  IF IsNone(g.gemini_model) THEN InsightUnavailable
  ELSE IF request_data.kind = "null" THEN InternalServerError
  ELSE IF Falsy(RekapAnalysisOf(request_data))
  THEN InsightBadRequest("Data analisis rekap tidak disertakan")
  ELSE InsightGenerated(outcome)

\* dict.get(key, default) on a JSON body
DictGet(body, key, default) == IF key \in DOMAIN body THEN body[key] ELSE default

\* frontend_app.py, load_monitoring_data and load_meeting_dashboard_data: the
\* data and the message; a message is the f-string's parts in order
FrontendLoad(resp, label) ==
  IF resp.status = 200
  THEN [data |-> resp.body, message |-> <<>>]
  ELSE [data |-> <<>>,
        message |-> <<label, DictGet(resp.body, "error", "Gagal memuat data")>>]

\* frontend_app.py, get_monitoring_insight and get_holistic_insight: the text
\* returned (str(None) being 'None'); on a body that is not JSON
\* response.json() raises and no text is returned
FrontendInsight(resp) ==
  IF "html" \in DOMAIN resp.body THEN <<>>
  ELSE IF resp.status = 200
  THEN <<DictGet(resp.body, "insight_text", "None")>>
  ELSE <<"Gagal mendapatkan insight: ", DictGet(resp.body, "error", "None")>>

\* the worksheet 'template_monitoring' as get_all_values() may return it
SheetHeaders ==
  {<<"STOCK WH1", "WIP", "PLAN">>,
   <<"STOCK WH1", "wip", " plan">>,
   <<"STOCK WH1", "WIP", "QTY">>,
   <<"", "", "">>}

SheetDataRows ==
  {<<"44", "22", "22">>, <<"0", "11", "22">>, <<"11", "0", "44">>,
   <<"44", "x", "22">>, <<"", "22", "0">>, <<"22", "0", "0">>}

Sheets ==
  {<<>>} \cup
  {<<h>> \o rows : h \in SheetHeaders,
                   rows \in UNION {[1..n -> SheetDataRows] : n \in 0..MaxSheetRows}}

\* the worksheet 'REKAP'
RekapSheets ==
  {<<>>,
   << <<"PART NUMBER", "PART NAME", "TYPE", "ORDER + TOLERANSI - KEDATANGAN">> >>,
   << <<"PART NUMBER", "PART NAME", "TYPE">>, <<"P1", "Bolt", "A">> >>,
   << <<"PART NUMBER", "PART NAME", "TYPE", "ORDER + TOLERANSI - KEDATANGAN">>,
      <<"P1", "Bolt", "A", "-5">>, <<"P2", "Nut", "A", "7">> >>}

\* request bodies of the insight endpoints
JsonNull == [kind |-> "null"]
JsonEmpty == [kind |-> "empty"]
JsonDict(of) == [kind |-> "dict", of |-> of]

PartPayloads == {JsonNull, JsonEmpty, JsonDict([PLAN |-> "22"])}

HolisticPayloads ==
  {JsonNull, JsonEmpty,
   JsonDict([rekap_analysis |-> JsonEmpty]),
   JsonDict([rekap_analysis |-> JsonNull]),
   JsonDict([rekap_analysis |-> JsonDict([kpi_summary |-> "kpi"])])}

GeminiOutcomes == {"text", "raises"}

NoExchange == [endpoint |-> "none"]
NoBb == [loaded |-> FALSE]

\* the Streamlit pages take no part in the service
PagesAbsent ==
  /\ app = "backend_app.py"
  /\ model = "none"
  /\ session = NoSession
  /\ op = "none"
  /\ input = NoInput
  /\ work = <<>>
  /\ result = NoResult
  /\ calls = <<>>
  /\ fault = "none"
  /\ message = "none"
  /\ prev = NoPrev

PagesUnchanged ==
  UNCHANGED <<app, model, session, op, input, work, result, calls, fault,
              message, prev>>

\* the server started (and bb.py started with the same artifacts), the
\* monitoring worksheet holding all_values
Started(g, all_values) ==
  api = [kind |-> "service", globals |-> g, sheet |-> all_values,
         exchange |-> NoExchange, bb |-> NoBb]

\* frontend_app.py load_monitoring_data() against GET /api/monitoring_data
RequestMonitoringData ==
  /\ api.exchange = NoExchange
  /\ LET r == GetMonitoringData(api.globals, api.sheet)
     IN  api' = [api EXCEPT !.exchange =
                   [endpoint |-> "/api/monitoring_data", resp |-> r.resp,
                    predicts |-> r.predicts,
                    returned |-> FrontendLoad(r.resp, "Error (Monitoring): ")]]
  /\ PagesUnchanged

\* frontend_app.py load_meeting_dashboard_data()
RequestMeetingDashboard ==
  /\ api.exchange = NoExchange
  /\ \E rekap \in RekapSheets :
       LET r == GetMorningMeetingDashboard(api.globals, rekap)
       IN  api' = [api EXCEPT !.exchange =
                     [endpoint |-> "/api/morning_meeting_dashboard", resp |-> r,
                      rekap |-> rekap,
                      returned |-> FrontendLoad(r, "Error (Rapat Pagi): ")]]
  /\ PagesUnchanged

\* frontend_app.py get_monitoring_insight(part_data)
RequestMonitoringInsight ==
  /\ api.exchange = NoExchange
  /\ \E part_data \in PartPayloads, outcome \in GeminiOutcomes :
       LET r == GenerateMonitoringInsight(api.globals, part_data, outcome)
       IN  api' = [api EXCEPT !.exchange =
                     [endpoint |-> "/api/generate_monitoring_insight",
                      payload |-> part_data, outcome |-> outcome,
                      resp |-> r.resp, read_body |-> r.read_body,
                      gemini_calls |-> r.gemini_calls,
                      returned |-> FrontendInsight(r.resp)]]
  /\ PagesUnchanged

\* frontend_app.py get_holistic_insight(rekap_analysis)
RequestHolisticInsight ==
  /\ api.exchange = NoExchange
  /\ \E request_data \in HolisticPayloads, outcome \in GeminiOutcomes :
       LET r == GenerateHolisticInsight(api.globals, request_data, outcome)
       IN  api' = [api EXCEPT !.exchange =
                     [endpoint |-> "/api/generate_holistic_insight",
                      payload |-> request_data, outcome |-> outcome,
                      resp |-> r.resp, read_body |-> r.read_body,
                      gemini_calls |-> r.gemini_calls,
                      returned |-> FrontendInsight(r.resp)]]
  /\ PagesUnchanged

\* bb.py: load_monitoring_data(ws_monitoring, model_crit, model_anom)
BbMonitoring ==
  /\ ~api.bb.loaded
  /\ LET r == BbLoadMonitoringData(api.globals, api.sheet)
     IN  api' = [api EXCEPT !.bb = [loaded |-> TRUE, df |-> r.df, error |-> r.error,
                                    predicts |-> r.predicts]]
  /\ PagesUnchanged

\* the exchange is over (and bb.py's cached table expired)
Forget ==
  /\ api.exchange # NoExchange \/ api.bb.loaded
  /\ api' = [api EXCEPT !.exchange = NoExchange, !.bb = NoBb]
  /\ PagesUnchanged

\* the monitoring table served by the backend and computed by bb.py
InitMonitoring ==
  /\ PagesAbsent
  /\ \E m \in BOOLEAN, c \in BOOLEAN, all_values \in Sheets :
       Started(Globals(m, c, TRUE), all_values)

NextMonitoring == RequestMonitoringData \/ BbMonitoring \/ Forget

SpecMonitoring == InitMonitoring /\ [][NextMonitoring]_vars

\* the four endpoints behind the frontend, on a few monitoring worksheets
ApiSheets ==
  {<<>>,
   << <<"STOCK WH1", "WIP", "QTY">>, <<"44", "22", "22">> >>,
   << <<"STOCK WH1", "WIP", "PLAN">>, <<"44", "x", "22">> >>,
   << <<"STOCK WH1", "WIP", "PLAN">>, <<"44", "22", "22">> >>}

InitApi ==
  /\ PagesAbsent
  /\ \E m \in BOOLEAN, c \in BOOLEAN, gm \in BOOLEAN, all_values \in ApiSheets :
       Started(Globals(m, c, gm), all_values)

NextApi ==
  \/ RequestMonitoringData \/ RequestMeetingDashboard
  \/ RequestMonitoringInsight \/ RequestHolisticInsight
  \/ Forget

SpecApi == InitApi /\ [][NextApi]_vars

-----------------------------------------------------------------------------
(* Properties.  The buffer of an observation is stated here on its inputs, *)
(* in exact arithmetic, independently of the columns the program computes. *)

Assessed == op \in {"tab1", "simulasi", "risiko"}

RowsOf(t) == 1..Len(t)

\* the classifier calls made for row i
CallsFor(i) == {j \in 1..Len(calls) : calls[j].row = i}

RatePositive(w) == w.konsumsi_per_jam.k = "fin" /\ w.konsumsi_per_jam.n > 0
RateZero(w)     == w.konsumsi_per_jam.k = "fin" /\ w.konsumsi_per_jam.n = 0

\* stock / rate compared with lead_time, cross-multiplied (rate > 0)
StockSide(w) == w.stok_tersedia.n * w.konsumsi_per_jam.d * w.lead_time.d
LeadSide(w)  == w.lead_time.n * w.stok_tersedia.d * w.konsumsi_per_jam.n

\* buffer_time <= 0
BufferLeqZero(w) == RatePositive(w) /\ StockSide(w) <= LeadSide(w)

\* buffer_time > 0 (+infinity when nothing is consumed)
BufferGtZero(w) == RateZero(w) \/ (RatePositive(w) /\ StockSide(w) > LeadSide(w))

\* the value v is exactly a / b, for finite a and b > 0
IsQuotient(v, a, b) == v.k = "fin" /\ v.n * a.d * b.n = a.n * b.d * v.d

\* the value v is exactly a - b, for finite a and b
IsDifference(v, a, b) ==
  v.k = "fin" /\ v.n * a.d * b.d = (a.n * b.d - b.n * a.d) * v.d

\* the value t has one decimal and lies within 0.05 of v
IsRoundedToOneDecimal(t, v) ==
  /\ t.k = "fin" /\ v.k = "fin"
  /\ 10 % t.d = 0
  /\ 20 * Abs(t.n * v.d - v.n * t.d) <= t.d * v.d

\* C1: an observation whose buffer_time is <= 0 is evaluated 'Merah' and the
\* classifier is not invoked for it, in the batch path (the value get_status
\* returns, the Status column, the returned row) and in both simulations
C1_NonPositiveBufferIsMerahWithoutClassifier ==
  Assessed =>
    \A i \in RowsOf(work) :
      (BufferLeqZero(work[i]) \/ LeqZero(work[i].selisih_waktu)) =>
        /\ CallsFor(i) = {}
        /\ (i <= Len(result.statuses) => result.statuses[i] = "Merah")
        /\ (fault = "none" => work[i].Status = "Merah")
        /\ (result.returned => result.table[i].Status = "Merah")

\* a batch in which one row has a buffer <= 0 and is 'Merah' while the
\* classifier was consulted for another row
C1_Witness ==
  /\ op = "tab1" /\ result.returned
  /\ \E i, k \in RowsOf(work) :
       /\ BufferLeqZero(work[i]) /\ result.table[i].Status = "Merah"
       /\ CallsFor(k) # {}

\* C2: downgrade law: buffer_time > 0 and the classifier answering 'Merah'
\* give the status 'Kuning'
C2_DowngradeLaw ==
  Assessed =>
    \A i \in RowsOf(work) :
      (BufferGtZero(work[i]) /\ \E j \in CallsFor(i) : calls[j].ret = "Merah") =>
        /\ i <= Len(result.statuses) /\ result.statuses[i] = "Kuning"
        /\ (fault = "none" => work[i].Status = "Kuning")
        /\ (result.returned => result.table[i].Status = "Kuning")

\* a risk analysis of final.py in which the classifier answered 'Merah'
C2_Witness ==
  /\ op = "risiko" /\ Len(work) = 1 /\ BufferGtZero(work[1])
  /\ \E j \in CallsFor(1) : calls[j].ret = "Merah"
  /\ work[1].Status = "Kuning"

\* C3: pass-through law: buffer_time > 0 and a non-critical classifier
\* answer give exactly that answer as the status
C3_PassThroughLaw ==
  Assessed =>
    \A i \in RowsOf(work) :
      \A j \in CallsFor(i) :
        (BufferGtZero(work[i]) /\ calls[j].ret \in {"Kuning", "Hijau"}) =>
          /\ i <= Len(result.statuses) /\ result.statuses[i] = calls[j].ret
          /\ (fault = "none" => work[i].Status = calls[j].ret)
          /\ (result.returned => result.table[i].Status = calls[j].ret)

\* a batch that returns one row with the classifier's 'Hijau' and one with
\* its 'Kuning'
C3_Witness ==
  /\ op = "tab1" /\ result.returned
  /\ \E i, k \in RowsOf(work) :
       /\ \E j \in CallsFor(i) : calls[j].ret = "Hijau"
       /\ result.table[i].Status = "Hijau"
       /\ \E j \in CallsFor(k) : calls[j].ret = "Kuning"
       /\ result.table[k].Status = "Kuning"

\* C4: the status is 'Merah' exactly when buffer_time <= 0, whatever the
\* classifier answers
C4_MerahIffBufferNonPositive ==
  Assessed =>
    \A i \in RowsOf(work) :
      /\ (i <= Len(result.statuses) =>
            (result.statuses[i] = "Merah" <=> BufferLeqZero(work[i])))
      /\ (work[i].Status = "Merah" => BufferLeqZero(work[i]))
      /\ (result.returned =>
            (result.table[i].Status = "Merah" <=> BufferLeqZero(work[i])))

\* a batch with a 'Merah' row of buffer <= 0 and a row of buffer > 0 for
\* which the classifier answered 'Merah'
C4_Witness ==
  /\ op = "tab1" /\ result.returned
  /\ \E i, k \in RowsOf(work) :
       /\ BufferLeqZero(work[i]) /\ result.table[i].Status = "Merah"
       /\ BufferGtZero(work[k]) /\ result.table[k].Status # "Merah"
       /\ \E j \in CallsFor(k) : calls[j].ret = "Merah"

\* C5: with consumption_rate = 0 the depletion time and the buffer are
\* +infinity and the classifier is consulted, in the batch path and in the
\* simulations (stated for evaluations that completed)
C5_ZeroRateIsInfinite ==
  (Assessed /\ fault = "none") =>
    \A i \in RowsOf(work) :
      RateZero(work[i]) =>
        /\ work[i].waktu_habis_stok = Inf
        /\ work[i].selisih_waktu = Inf
        /\ CallsFor(i) # {}

\* C6 as claimed: with consumption_rate > 0 the computed values and the
\* values of the returned table are stock / rate and depletion - lead_time
\* exactly
C6_ExactInTable ==
  Assessed =>
    \A i \in RowsOf(work) :
      RatePositive(work[i]) =>
        /\ IsQuotient(work[i].waktu_habis_stok, work[i].stok_tersedia,
                      work[i].konsumsi_per_jam)
        /\ IsDifference(work[i].selisih_waktu, work[i].waktu_habis_stok,
                        work[i].lead_time)
        /\ (result.returned =>
              /\ result.table[i].Sisa_Waktu = work[i].waktu_habis_stok
              /\ result.table[i].Buffer_Waktu = work[i].selisih_waktu)

\* C6 amended: the computed values are exact; the table holds them rounded
\* to one decimal
C6_ExactThenRounded ==
  Assessed =>
    \A i \in RowsOf(work) :
      RatePositive(work[i]) =>
        /\ IsQuotient(work[i].waktu_habis_stok, work[i].stok_tersedia,
                      work[i].konsumsi_per_jam)
        /\ IsDifference(work[i].selisih_waktu, work[i].waktu_habis_stok,
                        work[i].lead_time)
        /\ (result.returned =>
              /\ IsRoundedToOneDecimal(result.table[i].Sisa_Waktu,
                                       work[i].waktu_habis_stok)
              /\ IsRoundedToOneDecimal(result.table[i].Buffer_Waktu,
                                       work[i].selisih_waktu))

\* a returned row whose reported depletion time differs from the computed one
C6_Witness ==
  /\ op = "tab1" /\ result.returned
  /\ \E i \in RowsOf(work) :
       /\ RatePositive(work[i])
       /\ result.table[i].Sisa_Waktu # work[i].waktu_habis_stok

\* C7 as claimed: a returned row whose reported buffer is <= 0 has the
\* Status 'Merah'
C7_ReportedBufferAgrees ==
  (op = "tab1" /\ result.returned) =>
    \A i \in RowsOf(result.table) :
      LeqZero(result.table[i].Buffer_Waktu) => result.table[i].Status = "Merah"

\* C7 amended: a returned row is 'Merah' whenever its unrounded buffer is
\* <= 0, hence whenever its reported buffer is < 0; a row reported 0.0 that
\* is not 'Merah' has an unrounded buffer in (0, 0.05]
C7_UnroundedBufferAgrees ==
  (op = "tab1" /\ result.returned) =>
    \A i \in RowsOf(result.table) :
      LET t == result.table[i]
          b == work[i].selisih_waktu
      IN  /\ LeqZero(b) => t.Status = "Merah"
          /\ BufferLeqZero(work[i]) => t.Status = "Merah"
          /\ (LeqZero(t.Buffer_Waktu) /\ t.Buffer_Waktu # Num(0)) => t.Status = "Merah"
          /\ (t.Buffer_Waktu = Num(0) /\ t.Status # "Merah") =>
               (b.k = "fin" /\ b.n > 0 /\ 20 * b.n <= b.d)

\* a returned table with two rows reported 0.0, one 'Merah' and one not
C7_Witness ==
  /\ op = "tab1" /\ result.returned
  /\ \E i, k \in RowsOf(result.table) :
       /\ result.table[i].Buffer_Waktu = Num(0) /\ result.table[i].Status = "Merah"
       /\ result.table[k].Buffer_Waktu = Num(0) /\ result.table[k].Status # "Merah"

\* C8: a failing classifier call leaves the handler as an exception; the
\* observation gets no status and nothing is returned
C8_ClassifierFailureIsSurfaced ==
  Assessed =>
    \A j \in 1..Len(calls) :
      calls[j].ret = "raise" =>
        /\ fault = "ClassifierError"
        /\ Len(result.statuses) < calls[j].row
        /\ work[calls[j].row].Status = NoStatus
        /\ ~result.returned

\* a simulation in which the classifier failed
C8_Witness ==
  /\ op = "simulasi" /\ Len(work) = 1 /\ BufferGtZero(work[1])
  /\ \E j \in CallsFor(1) : calls[j].ret = "raise"
  /\ fault = "ClassifierError"

\* C9: in a batch, a classifier failure on one row leaves every other row
\* evaluated and returned
C9_FailureAffectsOnlyItsRow ==
  op = "tab1" =>
    \A j \in 1..Len(calls) :
      calls[j].ret = "raise" =>
        \A i \in RowsOf(work) \ {calls[j].row} :
          /\ i \in RowsOf(result.table)
          /\ result.table[i].Status \in Labels

\* the fields an observation must have
RequiredFields ==
  {"seksi_tujuan", "nama_komponen", "stok_tersedia", "konsumsi_per_jam", "lead_time"}

\* C10: a missing required field raises the error before any arithmetic and
\* before any classifier call
C10_MissingFieldFailsFast ==
  (op = "tab1" /\ ~(RequiredFields \subseteq input.columns)) =>
    /\ fault = "KeyError"
    /\ result.computed = {}
    /\ calls = <<>>

\* get_status (or the simulation's if/else) ran for row i
Evaluated(i) ==
  \/ i <= Len(result.statuses)
  \/ (fault = "ClassifierError" /\ i = Len(result.statuses) + 1)

\* C11: an evaluation with buffer_time > 0 invokes the classifier exactly
\* once, with the section, component, stock and lead time of the
\* observation evaluated and nothing else
C11_ClassifierCalledOnceWithOwnFeatures ==
  Assessed =>
    /\ \A i \in RowsOf(work) :
         (BufferGtZero(work[i]) /\ Evaluated(i)) =>
           /\ Cardinality(CallsFor(i)) = 1
           /\ \A j \in CallsFor(i) :
                /\ DOMAIN calls[j].args =
                     {"seksi_tujuan", "nama_komponen", "stok_tersedia", "lead_time"}
                /\ calls[j].args.seksi_tujuan = work[i].seksi_tujuan
                /\ calls[j].args.nama_komponen = work[i].nama_komponen
                /\ calls[j].args.stok_tersedia = work[i].stok_tersedia
                /\ calls[j].args.lead_time = work[i].lead_time
    /\ \A j \in 1..Len(calls) : calls[j].row \in RowsOf(work)
    /\ Len(calls) <= Len(work)

\* a batch of two different observations, both with a positive buffer, each
\* of which reached the classifier
C11_Witness ==
  /\ op = "tab1" /\ result.returned /\ Len(work) = 2
  /\ work[1] # work[2]
  /\ work[1].stok_tersedia # work[2].stok_tersedia
  /\ BufferGtZero(work[1]) /\ BufferGtZero(work[2])
  /\ Len(calls) = 2

\* the same observation is being evaluated as on the remembered page, by the
\* same path
SameAsBefore ==
  /\ prev.kind # "none"
  /\ Assessed
  /\ op = prev.kind
  /\ input = prev.input

C13_AssessmentIndependentOfBatch ==
  (op = "tab1" /\ input.columns = AllColumns) =>
    \A i \in RowsOf(input.df) :
      LET alone == ProcessDashboardData(<<input.df[i]>>, AllColumns, model)
      IN  alone.returned =>
            /\ result.returned
            /\ result.table[i] = alone.table[1]

\* the columns of a table (the fields its rows carry)
ColumnsOf(t) == UNION {DOMAIN t[i] : i \in RowsOf(t)}

\* C14: a call of process_dashboard_data leaves the table it was given as it
\* was (same rows, same columns, same values), and changes nothing that
\* outlives the call: the classifier, the session and the script stay as
\* they were
C14_InputTableUnchangedNoStateKept ==
  [][op' = "tab1" =>
       /\ Len(result'.df_after) = Len(input'.df)
       /\ ColumnsOf(result'.df_after) = ColumnsOf(input'.df)
       /\ result'.df_after = input'.df
       /\ model' = model /\ session' = session /\ app' = app]_vars

\* a call that assigned its columns and the Status on two rows and returned,
\* the table given to it still without them
C14_Witness ==
  /\ op = "tab1" /\ result.returned /\ Len(input.df) = 2
  /\ result.computed = {"waktu_habis_stok", "selisih_waktu"}
  /\ "Status" \in ColumnsOf(work)
  /\ ColumnsOf(result.df_after) = AllColumns
  /\ result.df_after = input.df

\* severity order of the statuses: Critical before Watch before Safe
Severity(status) ==
  IF status = "Merah" THEN 1 ELSE IF status = "Kuning" THEN 2 ELSE 3

\* buffer a is smaller than buffer b (a nan buffer counting as larger than
\* any number)
Smaller(a, b) ==
  \/ a.k # "nan" /\ b.k = "nan"
  \/ a.k = "ninf" /\ b.k \in {"fin", "inf"}
  \/ a.k = "fin" /\ b.k = "inf"
  \/ a.k = "fin" /\ b.k = "fin" /\ a.n * b.d < b.n * a.d

\* the list shows each row of the returned table whose status is selected,
\* once
ShowsSelectedRows ==
  /\ {result.shown[p] : p \in RowsOf(result.shown)} =
       {i \in RowsOf(result.table) :
          result.table[i].Status \in input.selected_statuses}
  /\ \A p, q \in RowsOf(result.shown) :
       p # q => result.shown[p] # result.shown[q]

\* C15 as stated: the list is ordered by severity of the status and, among
\* rows of equal status, by ascending buffer_time, so that no row follows a
\* row of the same status whose buffer is larger
C15_ListOrderedByStatusThenBuffer ==
  (op = "tab1" /\ result.returned) =>
    \A p, q \in RowsOf(result.shown) :
      p < q =>
        LET i == result.shown[p]
            j == result.shown[q]
        IN  /\ Severity(work[i].Status) <= Severity(work[j].Status)
            /\ work[i].Status = work[j].Status =>
                 ~Smaller(work[j].selisih_waktu, work[i].selisih_waktu)

\* C15 amended: the list is ordered by severity of the status and, among rows
\* of equal status, by ascending reported buffer (the buffer rounded to one
\* decimal place, nan last); rows of equal status and equal reported buffer
\* keep the order they have in the dataset
C15_ListOrderedByStatusThenReportedBuffer ==
  (op = "tab1" /\ result.returned) =>
    /\ ShowsSelectedRows
    /\ \A p, q \in RowsOf(result.shown) :
         p < q =>
           LET i == result.shown[p]
               j == result.shown[q]
               bi == result.table[i].Buffer_Waktu
               bj == result.table[j].Buffer_Waktu
           IN  /\ Severity(result.table[i].Status) <= Severity(result.table[j].Status)
               /\ result.table[i].Status = result.table[j].Status =>
                    /\ ~Smaller(bj, bi)
                    /\ ~Smaller(bi, bj) => i < j

\* a list of three rows that the sort rearranged: a 'Merah' row moved in
\* front of two rows of another status with different reported buffers
C15_Witness ==
  /\ op = "tab1" /\ result.returned
  /\ Len(result.shown) = 3
  /\ result.shown[1] = 3
  /\ result.table[result.shown[1]].Status = "Merah"
  /\ result.table[result.shown[2]].Status = result.table[result.shown[3]].Status
  /\ Smaller(result.table[result.shown[2]].Buffer_Waktu,
             result.table[result.shown[3]].Buffer_Waktu)
  /\ result.shown[2] > result.shown[3]

NonNegativeInputs(w) ==
  /\ w.stok_tersedia.k = "fin" /\ w.stok_tersedia.n >= 0
  /\ w.konsumsi_per_jam.k = "fin" /\ w.konsumsi_per_jam.n >= 0
  /\ w.lead_time.k = "fin" /\ w.lead_time.n >= 0

OutOfRange(w) ==
  \/ w.stok_tersedia.n < 0 \/ w.konsumsi_per_jam.n < 0 \/ w.lead_time.n < 0

\* stock / rate <= lead_time, cross-multiplied, for a rate other than 0
QuotientLeqLead(w) ==
  IF w.konsumsi_per_jam.n > 0
  THEN StockSide(w) <= LeadSide(w)
  ELSE StockSide(w) >= LeadSide(w)

\* row i was decided by the threshold: 'Merah', the classifier not consulted
ByThreshold(i) ==
  /\ CallsFor(i) = {}
  /\ i <= Len(result.statuses) /\ result.statuses[i] = "Merah"

\* row i was decided by the classifier, consulted once
ByClassifier(i) == Cardinality(CallsFor(i)) = 1

\* C17 as stated: an observation with a negative input raises no error and is
\* decided by stock / rate - lead_time <= 0, in the batch and in the
\* simulation
C17_OutOfRangePropagates ==
  Assessed =>
    \A i \in RowsOf(work) :
      (OutOfRange(work[i]) /\ ~RateZero(work[i])) =>
        /\ fault \in {"none", "ClassifierError"}
        /\ IF QuotientLeqLead(work[i]) THEN ByThreshold(i) ELSE ByClassifier(i)

\* C17 amended: no error is raised; in the batch the negative values go
\* through stock / rate - lead_time and the <= 0 test (a negative stock over
\* a rate of 0 being -infinity); in the simulation a negative rate is not
\* divided by: the depletion_time is +infinity and the classifier decides
C17_OutOfRangePropagatesInBatchOnly ==
  Assessed =>
    \A i \in RowsOf(work) :
      OutOfRange(work[i]) =>
        /\ fault \in {"none", "ClassifierError"}
        /\ IF op = "tab1"
           THEN IF RateZero(work[i])
                THEN IF work[i].stok_tersedia.n < 0
                     THEN ByThreshold(i) ELSE ByClassifier(i)
                ELSE IF QuotientLeqLead(work[i])
                     THEN ByThreshold(i) ELSE ByClassifier(i)
           ELSE /\ work[i].konsumsi_per_jam.n < 0
                /\ work[i].waktu_habis_stok = Inf
                /\ ByClassifier(i)

\* a batch row with negative stock and negative lead time whose buffer
\* (-40 / 10 + 2) decided 'Merah'
C17_Witness ==
  /\ op = "tab1" /\ result.returned
  /\ work[1].stok_tersedia.n < 0 /\ work[1].lead_time.n < 0
  /\ RatePositive(work[1])
  /\ work[1].selisih_waktu = Num(-2)
  /\ ByThreshold(1)

\* C18: a risk analysis started while adjusted_lead_time is None shows the
\* error asking for an ETA, produces no status and consults neither the
\* consumption map nor the classifier; a status is produced only with a lead
\* time in the session
C18_NoRiskAnalysisWithoutEta ==
  op = "risiko" =>
    /\ IsNone(session.adjusted_lead_time) =>
         /\ message = "hitung ETA dahulu"
         /\ result.statuses = <<>>
         /\ work = <<>>
         /\ result.lookups = <<>>
         /\ calls = <<>>
         /\ fault = "none"
    /\ (result.statuses # <<>> \/ calls # <<>> \/ result.lookups # <<>>) =>
         ~IsNone(session.adjusted_lead_time)

\* the button pressed before any ETA, for a pair and a stock that would
\* otherwise have been evaluated
C18_Witness ==
  /\ op = "risiko"
  /\ IsNone(session.adjusted_lead_time)
  /\ <<input.seksi_tujuan, input.nama_komponen>> \in KonsumsiKeys
  /\ message = "hitung ETA dahulu"

\* the ETA calculation recorded in the page's input succeeded: coordinates
\* were found, a key was given and the route request answered a duration
EtaSucceeded(in) ==
  /\ in.kind = "eta"
  /\ in.geo = "found"
  /\ in.api_key # ""
  /\ in.route.kind = "ok"

\* the value v is twice the duration h
IsTwice(v, h) == v.k = "fin" /\ v.n * h.d = 2 * h.n * v.d

\* C19: the three session values change only in a step that is a successful
\* ETA calculation, which sets all three from that calculation; every other
\* step, a failed calculation included, leaves them as they were; and a risk
\* analysis works with the lead time the session holds
C19_SessionChangesOnlyOnEtaSuccess ==
  [][/\ (op' = "eta" /\ EtaSucceeded(input')) =>
          /\ IsTwice(session'.adjusted_lead_time, input'.route.hours)
          /\ session'.route_coords = [k |-> "route", from |-> input'.start_location_text]
          /\ session'.start_location_name = input'.start_location_text
          /\ message' = "none"
     /\ ~(op' = "eta" /\ EtaSucceeded(input')) =>
          /\ session' = session
          /\ op' = "eta" => message' # "none"
     /\ op' = "risiko" =>
          /\ input'.lead_time = session.adjusted_lead_time
          /\ \A i \in RowsOf(work') : work'[i].lead_time = session.adjusted_lead_time
    ]_vars

\* a calculation for another location failed after one had succeeded: the
\* session still holds the three values of the successful one
C19_Witness ==
  /\ op = "eta" /\ ~EtaSucceeded(input)
  /\ message # "none"
  /\ ~IsNone(session.adjusted_lead_time)
  /\ ~IsNone(session.route_coords)
  /\ session.start_location_name # ""
  /\ session.start_location_name # input.start_location_text
  /\ session.route_coords.from = session.start_location_name

\* C20: a simulation for a (section, component) pair without entry in the
\* consumption map reports an error, produces no status and does not invoke
\* the classifier; a status is produced only for pairs of the map
C20_AbsentPairIsAnError ==
  op \in {"simulasi", "risiko"} =>
    LET key == <<input.seksi_tujuan, input.nama_komponen>>
    IN  /\ key \notin KonsumsiKeys =>
             /\ message # "none"
             /\ op = "simulasi" => message = "tidak ditemukan"
             /\ (op = "risiko" /\ ~IsNone(session.adjusted_lead_time)) =>
                  message = "tidak ada data konsumsi"
             /\ result.statuses = <<>>
             /\ work = <<>>
             /\ calls = <<>>
        /\ result.statuses # <<>> => key \in KonsumsiKeys
        /\ calls # <<>> => key \in KonsumsiKeys

\* the risk analysis of final.py, an ETA being there, for the pair the map
\* does not hold
C20_Witness ==
  /\ op = "risiko"
  /\ ~IsNone(session.adjusted_lead_time)
  /\ <<input.seksi_tujuan, input.nama_komponen>> \notin KonsumsiKeys
  /\ message = "tidak ada data konsumsi"
  /\ result.lookups = << <<input.seksi_tujuan, input.nama_komponen>> >>

\* the simulation on the page evaluates the observation that the remembered
\* single-row batch evaluated: same section, component, stock, consumption
\* rate and lead time
SimulatesRememberedRow ==
  /\ prev.kind = "tab1"
  /\ op \in {"simulasi", "risiko"}
  /\ work # <<>>
  /\ Len(prev.work) = 1
  /\ work[1].seksi_tujuan = prev.work[1].seksi_tujuan
  /\ work[1].nama_komponen = prev.work[1].nama_komponen
  /\ work[1].stok_tersedia = prev.work[1].stok_tersedia
  /\ work[1].konsumsi_per_jam = prev.work[1].konsumsi_per_jam
  /\ work[1].lead_time = prev.work[1].lead_time

\* C21: for an observation with stock, rate (0 included) and lead time >= 0
\* and the same classifier, the simulation yields the status that
\* process_dashboard_data yields for the row (or fails as it fails), and
\* consults the classifier exactly when process_dashboard_data does, with
\* the same features
C21_BatchAndSimulationAgree ==
  (SimulatesRememberedRow /\ NonNegativeInputs(work[1])) =>
    /\ result.statuses = prev.result.statuses
    /\ fault = prev.fault
    /\ (calls = <<>>) <=> (prev.calls = <<>>)
    /\ Len(calls) = Len(prev.calls)
    /\ \A j \in 1..Len(calls) :
         calls[j].args = prev.calls[j].args /\ calls[j].ret = prev.calls[j].ret
    /\ result.statuses # <<>> =>
         (prev.result.returned /\ prev.result.table[1].Status = result.statuses[1])

\* stock 0 and rate 0: the batch computed nan, the simulation +infinity, and
\* both took the status from the classifier
C21_Witness ==
  /\ SimulatesRememberedRow
  /\ RateZero(work[1]) /\ work[1].stok_tersedia.n = 0
  /\ prev.work[1].waktu_habis_stok = NaN
  /\ work[1].waktu_habis_stok = Inf
  /\ result.statuses # <<>>
  /\ calls # <<>> /\ prev.calls # <<>>

\* the requests of the monitoring service
Exchanged == api.kind = "service" /\ api.exchange.endpoint # "none"

InsightEndpoints ==
  {"/api/generate_monitoring_insight", "/api/generate_holistic_insight"}

InsightExchanged == Exchanged /\ api.exchange.endpoint \in InsightEndpoints

\* the message the frontend function hands to its caller
FrontendMessage ==
  IF api.exchange.endpoint \in InsightEndpoints
  THEN api.exchange.returned
  ELSE api.exchange.returned.message

\* the texts the backend put in the body of its answer
BodyTexts == {api.exchange.resp.body[f] : f \in DOMAIN api.exchange.resp.body}

\* C22: after every request answered with a status other than 200, the
\* message the frontend function returns contains the text the backend put
\* in the body of the answer.
C22_FrontendMessageCarriesBackendText ==
  (Exchanged /\ api.exchange.resp.status # 200)
    => \E i \in DOMAIN FrontendMessage : FrontendMessage[i] \in BodyTexts

MonitoringExchanged ==
  Exchanged /\ api.exchange.endpoint = "/api/monitoring_data"

\* the preconditions of /api/monitoring_data, read off the globals and the
\* worksheet
Unavailable ==
  \E f \in {"model_crit", "model_anom", "scaler", "ws_monitoring"} :
     api.globals[f].k = "none"

NoDataRow == Len(api.sheet) < 2

Header == api.sheet[1]

NoNamedColumn == \A j \in DOMAIN Header : Header[j] = ""

ColumnPosition(c) == {j \in DOMAIN Header : UpperStrip(Header[j]) = c}

ColumnsMissing == \E c \in {"STOCK WH1", "WIP", "PLAN"} : ColumnPosition(c) = {}

NumericTexts == {"0", "11", "22", "44"}

\* data row i (row i + 1 of the worksheet) has its three values numeric
AllNumeric(i) ==
  \A c \in {"STOCK WH1", "WIP", "PLAN"} :
     \E j \in ColumnPosition(c) : api.sheet[i + 1][j] \in NumericTexts

NoNumericRow == \A i \in 1..(Len(api.sheet) - 1) : ~AllNumeric(i)

NoModelInvoked == api.exchange.predicts = <<>>

AnswersInOrder(empty) ==
  LET status == api.exchange.resp.status
  IN  /\ Unavailable => status = 503
      /\ (~Unavailable /\ empty) => status = 404
      /\ (~Unavailable /\ ~empty /\ ColumnsMissing) => status = 400
      /\ (~Unavailable /\ ~empty /\ ~ColumnsMissing /\ NoNumericRow)
           => status = 404
      /\ (Unavailable \/ empty \/ ColumnsMissing \/ NoNumericRow)
           => NoModelInvoked

\* C23 as stated: /api/monitoring_data answers with the first failing
\* precondition in the order 503 (an artifact or the worksheet unavailable),
\* 404 (the sheet has no data row), 400 (a required column missing), 404 (no
\* row with three numeric values), and invokes no model in these cases.
C23_FirstFailingPrecondition ==
  MonitoringExchanged => AnswersInOrder(NoDataRow)

\* C23 amended: the first 404 is given when the cleaned table is empty, which
\* is when the sheet has no data row or no column with a non-empty header;
\* the order and the other answers are as stated, and no model is invoked.
C23_FirstFailingPreconditionOnCleanedTable ==
  MonitoringExchanged => AnswersInOrder(NoDataRow \/ NoNamedColumn)

\* a sheet with the three columns and data rows, none of them numeric in all
\* three, answered 404
C23_Witness ==
  /\ MonitoringExchanged
  /\ ~Unavailable /\ ~NoDataRow /\ ~NoNamedColumn /\ ~ColumnsMissing
  /\ NoNumericRow
  /\ api.exchange.resp.status = 404

GeminiConfigured == api.globals.gemini_model.k # "none"

\* the required payload of the request is missing or empty: the part data
\* of the monitoring insight, 'rekap_analysis' of the holistic insight
PayloadMissing ==
  LET payload == api.exchange.payload
  IN  IF api.exchange.endpoint = "/api/generate_monitoring_insight"
      THEN payload.kind # "dict"
      ELSE \/ payload.kind # "dict"
           \/ "rekap_analysis" \notin DOMAIN payload.of
           \/ payload.of.rekap_analysis.kind # "dict"

InsightTextIs(text) ==
  /\ DOMAIN api.exchange.resp.body = {"insight_text"}
  /\ api.exchange.resp.body.insight_text = text

\* C24: the insight endpoints answer 503 without reading the body when
\* Gemini is not configured, 400 when the required payload is missing or
\* empty, and call Gemini only otherwise; when that call raises, the failure
\* text is returned in 'insight_text' with status 200.
C24_InsightEndpointsAnswerInOrder ==
  InsightExchanged =>
    LET x == api.exchange
    IN  /\ ~GeminiConfigured
           => x.resp.status = 503 /\ ~x.read_body /\ x.gemini_calls = 0
        /\ (GeminiConfigured /\ PayloadMissing)
           => x.resp.status = 400 /\ x.gemini_calls = 0
        /\ (GeminiConfigured /\ ~PayloadMissing)
           => /\ x.gemini_calls = 1
              /\ x.resp.status = 200
              /\ x.outcome = "raises" => InsightTextIs("Gagal menghubungi API Gemini")
              /\ x.outcome = "text" => InsightTextIs("insight")

\* the same worksheet was served by the backend and loaded by bb.py
BothLoaded == MonitoringExchanged /\ api.bb.loaded

Served == api.exchange.resp.body.records

SameRow(a, b) ==
  /\ a.cells = b.cells
  /\ a.Prediksi_Kritis = b.Prediksi_Kritis
  /\ a.Status_Stok = b.Status_Stok
  /\ a.Days_of_Stock = b.Days_of_Stock

\* C25: on the same worksheet and the same artifacts, bb.py's
\* load_monitoring_data reports an error exactly when /api/monitoring_data
\* answers non-200, and otherwise both return the same rows with the same
\* Prediksi_Kritis, Status_Stok and Days_of_Stock.
C25_StandaloneAgreesWithBackend ==
  BothLoaded =>
    /\ (api.bb.error.k # "none") <=> (api.exchange.resp.status # 200)
    /\ api.exchange.resp.status = 200 =>
         /\ Len(api.bb.df) = Len(Served)
         /\ \A i \in DOMAIN Served : SameRow(api.bb.df[i], Served[i])

\* both answered without error, with a predicted row of finite Days_of_Stock
\* and a row left without prediction
C25_Witness ==
  /\ BothLoaded
  /\ api.exchange.resp.status = 200
  /\ api.bb.error.k = "none"
  /\ \E i \in DOMAIN Served :
        Served[i].Days_of_Stock.k = "fin" /\ Served[i].Prediksi_Kritis.k = "str"
  /\ \E i \in DOMAIN Served : Served[i].Prediksi_Kritis.k = "nan"

\* the text of column c in data row i of the worksheet, and its number
TextOf(i, c) == api.sheet[i + 1][CHOOSE j \in ColumnPosition(c) : TRUE]

NumberOf(text) ==
  CASE text = "0" -> 0 [] text = "11" -> 11 [] text = "22" -> 22 [] text = "44" -> 44

\* what the models are given for data row i
FeaturesOf(i) ==
  [Stock_Level |-> Num(NumberOf(TextOf(i, "STOCK WH1"))),
   WIP         |-> Num(NumberOf(TextOf(i, "WIP"))),
   Deviation   |-> Num(NumberOf(TextOf(i, "PLAN")))]

\* record r carries data row i of the worksheet
CarriesRow(r, i) ==
  /\ Len(r.cells) = Len(Header)
  /\ \A j \in DOMAIN Header :
        IF api.sheet[i + 1][j] = "" THEN r.cells[j].k = "nan"
        ELSE r.cells[j].k = "str" /\ r.cells[j].s = api.sheet[i + 1][j]

\* the predictions of record r are those of data row i, or absent
AttachedFor(r, i) ==
  IF AllNumeric(i)
  THEN /\ r.Prediksi_Kritis.k = "str"
       /\ r.Prediksi_Kritis.s = CritPredict(FeaturesOf(i))
       /\ r.Status_Stok.k = "str"
       /\ r.Status_Stok.s \in {"Anomali", "Normal"}
       /\ r.Status_Stok.s = "Anomali" <=> AnomPredict(FeaturesOf(i)) = -1
  ELSE r.Prediksi_Kritis.k = "nan" /\ r.Status_Stok.k = "nan"

AttachedByRow(records) ==
  /\ Len(records) = Len(api.sheet) - 1
  /\ \A i \in DOMAIN records : CarriesRow(records[i], i) /\ AttachedFor(records[i], i)

\* C26: in the monitoring result of the backend and of bb.py every data row
\* of the sheet is returned; a row carries Prediksi_Kritis and Status_Stok
\* if and only if its STOCK WH1, WIP and PLAN are all numeric; the values
\* are the models' outputs for that same row; and Status_Stok is 'Anomali'
\* exactly when the anomaly model outputs -1, 'Normal' otherwise.
C26_PredictionsAttachedToTheirRows ==
  /\ (MonitoringExchanged /\ api.exchange.resp.status = 200)
       => AttachedByRow(Served)
  /\ (api.kind = "service" /\ api.bb.loaded /\ api.bb.error.k = "none")
       => AttachedByRow(api.bb.df)

\* a row without numeric values precedes an anomalous one, served by the
\* backend
C26_Witness ==
  /\ MonitoringExchanged
  /\ api.exchange.resp.status = 200
  /\ \E i, j \in DOMAIN Served :
        /\ i < j
        /\ ~AllNumeric(i)
        /\ AllNumeric(j)
        /\ Served[j].Status_Stok = Str("Anomali")
        /\ Served[i].Status_Stok.k = "nan"

=============================================================================
